---- MODULE Spec2Model ----
(***************************************************************************)
(* Transactional persistence of SLD templates and config values.           *)
(*                                                                         *)
(* Spec    : sources/store.js, one run() of the ingestion tool on its own  *)
(*           connection (template row, then parseConfig over the lines).   *)
(* SpecCfg : sources/update_config.js, update_config and                   *)
(*           check_config_ownership calls on the one client of app.js.     *)
(* SpecSelect : select.js, select calls, each on a client of its own.      *)
(* SpecQuery  : the event handlers of one querySingle query.               *)
(*                                                                         *)
(* The database client is pg.js: client.query() appends a statement to the *)
(* client's queue, the statements run one at a time in queue order, and a  *)
(* statement's 'row'/'error'/'end' events (and the promise callbacks they  *)
(* trigger) run when it completes.  The server is PostgreSQL: a statement  *)
(* that fails inside a transaction block aborts the block, every later     *)
(* statement fails until ROLLBACK or COMMIT, COMMIT of an aborted block    *)
(* rolls back without an error, BEGIN inside a block and COMMIT/ROLLBACK   *)
(* outside one only warn, and a statement outside a block commits at once. *)
(***************************************************************************)
EXTENDS Integers, Sequences, FiniteSets, TLC

VARIABLES
    lines,      \* store.js: the lines of the config file (input of the run)
    pc,         \* store.js: position of run()
    promiseList, \* store.js: the lines whose promise is in promiseList
    parentOf,   \* store.js: line -> line of the promise its insert waits on
    pst,        \* store.js: line -> state of the promise of that line
    idOf,       \* store.js: line -> id returned by the insert of that line
    ready,      \* store.js: state of the promise `ready` of run()
    err,        \* store.js: the error handed to console.error
    outcome,    \* store.js: what run() has reported
    closed,     \* store.js: client.end() has been called
    queue,      \* statements submitted to the client, not yet completed
    tx,         \* transaction state of the client's session
    db,         \* committed rows
    work,       \* rows as seen inside the session (committed + uncommitted)
    nextId,     \* next value of the id sequences
    faults,     \* statement faults injected so far
    log,        \* history of statement events
    calls,      \* update_config.js: the calls made so far
    config_id,  \* update_config.js: the global variable config_id
    selects,    \* select.js: the select calls made so far
    result,     \* select.js: the global variable result
    query       \* querySingle: one query, its events and its promise

vars == <<lines, pc, promiseList, parentOf, pst, idOf, ready, err, outcome,
          closed, queue, tx, db, work, nextId, faults, log, calls, config_id,
          selects, result, query>>

storeVars ==
    <<lines, pc, promiseList, parentOf, pst, idOf, ready, err, outcome, closed>>
cfgVars == <<calls, config_id>>
selVars == <<selects, result, query>>

(***************************************************************************)
(* Bounds                                                                  *)
(***************************************************************************)
MaxLines == 4
MaxFaults == 1
MaxValues == 2
MaxUpdates == 2
MaxChecks == 1
MaxRows == 3
MaxSelects == 2

Keys == {"point-color", "line-width"}

(***************************************************************************)
(* Lines of the config file.  ok is FALSE for a Rule line with fewer than  *)
(* four tab separated fields (fieldList[3] undefined).                     *)
(***************************************************************************)
FeatureTypeLine == [kind |-> "FeatureType", ok |-> TRUE, key |-> ""]
RuleLine(ok) == [kind |-> "Rule", ok |-> ok, key |-> ""]
FieldLine(k) == [kind |-> "Field", ok |-> TRUE, key |-> k]

LineSet == {FeatureTypeLine} \cup {RuleLine(b) : b \in BOOLEAN}
              \cup {FieldLine(k) : k \in Keys}

\* The line sequence of the spec's ordering example.
OrderingExample ==
    << FeatureTypeLine, RuleLine(TRUE), FieldLine("point-color"),
       FieldLine("line-width"), RuleLine(TRUE), FieldLine("point-color") >>

\* line.split('\t'): what the loop and the insert callbacks read of a
\* line's field list.  fieldList[0] is the kind, fieldList[3] the names of a
\* Rule line (undefined when the line has fewer than four fields),
\* fieldList[4] the symbolizer key of a Field line.
ReadLine(fieldList) ==
    [kind |-> fieldList[1],
     ok |-> fieldList[1] # "Rule" \/ Len(fieldList) >= 4,
     key |-> IF fieldList[1] = "Field" /\ Len(fieldList) >= 5
             THEN fieldList[5] ELSE ""]

\* The three lines of the spec's end-to-end example, split at the tabs.
EndToEndExample ==
    << ReadLine(<<"FeatureType">>),
       ReadLine(<<"Rule", "R;Title;Abstract">>),
       ReadLine(<<"Field", "", "", "3", "point-color", "#ff0000">>) >>

SeqsUpTo(S, n) == UNION {[1..m -> S] : m \in 0..n}

Inputs == SeqsUpTo(LineSet, MaxLines) \cup {OrderingExample, EndToEndExample}

(***************************************************************************)
(* Rows and statements                                                     *)
(***************************************************************************)
Row(tbl, id, parent, ref, text, origin) ==
    [tbl |-> tbl, id |-> id, parent |-> parent, ref |-> ref, text |-> text,
     origin |-> origin]

Stmt(op, who, parent, ref, text, src) ==
    [op |-> op, who |-> who, parent |-> parent, ref |-> ref, text |-> text,
     src |-> src]

Ctl(op, who) == Stmt(op, who, 0, 0, "", "")

\* The sld_type rows present before the run: one per key of the catalog.
KeyId(k) == IF k = "point-color" THEN 1 ELSE 2
CatalogRows(ks) == {Row("type", KeyId(k), 0, 0, k, 0) : k \in ks}
FirstId == Cardinality(Keys) + 1

Event(ev, s) == [ev |-> ev, op |-> s.op, who |-> s.who, src |-> s.src]

RECURSIVE Submits(_)
Submits(ss) ==
    IF ss = <<>> THEN <<>> ELSE <<Event("submit", Head(ss))>> \o Submits(Tail(ss))

Min(S) == CHOOSE m \in S : \A x \in S : m <= x

RECURSIVE SortedSeq(_)
SortedSeq(S) ==
    IF S = {} THEN <<>> ELSE <<Min(S)>> \o SortedSeq(S \ {Min(S)})

(***************************************************************************)
(* The PostgreSQL session behind client.query()                            *)
(***************************************************************************)
\* f: the statement fails.  Inside an aborted block every statement fails;
\* otherwise a statement may fail while fewer than MaxFaults have.
Fault(f) ==
    /\ tx = "aborted" => f
    /\ (f /\ tx # "aborted") => faults < MaxFaults

DbStatus(f) ==
    /\ tx' = IF f /\ tx = "open" THEN "aborted" ELSE tx
    /\ faults' = IF f /\ tx # "aborted" THEN faults + 1 ELSE faults

\* An INSERT ... RETURNING id of row.
DbInsert(f, row) ==
    /\ work' = IF f THEN work ELSE work \cup {row}
    /\ db' = IF ~f /\ tx = "idle" THEN db \cup {row} ELSE db
    /\ nextId' = IF f THEN nextId ELSE nextId + 1
    /\ DbStatus(f)

\* A SELECT.
DbRead(f) ==
    /\ UNCHANGED <<work, db, nextId>>
    /\ DbStatus(f)

\* BEGIN TRANSACTION: opens a block; only warns inside one; fails in an
\* aborted one.
DbBegin ==
    /\ tx' = IF tx = "idle" THEN "open" ELSE tx
    /\ UNCHANGED <<work, db, nextId, faults>>

\* COMMIT: makes the block's rows durable; rolls an aborted block back.
DbCommit ==
    /\ db' = IF tx = "open" THEN work ELSE db
    /\ work' = IF tx = "aborted" THEN db ELSE work
    /\ tx' = "idle"
    /\ UNCHANGED <<nextId, faults>>

\* ROLLBACK: discards the block's rows.
DbRollback ==
    /\ work' = db
    /\ tx' = "idle"
    /\ UNCHANGED <<db, nextId, faults>>

HeadIs(op) == queue # <<>> /\ Head(queue).op = op

Done(f, s) == <<Event(IF f THEN "fail" ELSE "ok", s)>>

\* PgDatabase.begin(): the promise of BEGIN has no callbacks.
BeginDone ==
    /\ HeadIs("BEGIN")
    /\ pc # "cfg"
    /\ DbBegin
    /\ queue' = Tail(queue)
    /\ log' = log \o Done(tx = "aborted", Head(queue))
    /\ UNCHANGED <<storeVars, cfgVars, selVars>>

(***************************************************************************)
(* store.js: parseConfig's loop                                            *)
(***************************************************************************)
NoScan(ls) ==
    [submit |-> <<>>, parent |-> [i \in 1..Len(ls) |-> 0], promiseList |-> {},
     thrown |-> 0]

LastOfKind(ls, kind) ==
    LET S == {j \in 1..Len(ls) : ls[j].kind = kind}
    IN  IF S = {} THEN 0 ELSE CHOOSE m \in S : \A x \in S : x <= m

\* insertRule reading the variable featureTypeInserted when its callback
\* runs, after the loop, instead of the promise it was passed.
insertRuleLate(acc, i, ft) ==
    IF ft = 0 THEN [acc EXCEPT !.thrown = i]
    ELSE [acc EXCEPT !.parent[i] = LastOfKind(lines, "FeatureType"),
                     !.promiseList = @ \cup {i}]

\* insertParam skipping a Field line that has no rule instead of throwing.
insertParamSkip(acc, i, rule) ==
    IF rule = 0 THEN acc
    ELSE [acc EXCEPT !.parent[i] = rule, !.promiseList = @ \cup {i}]

\* A Rule line: insertRule(featureTypeInserted, fieldList); ft = 0 is an
\* undefined featureTypeInserted, whose .then throws a TypeError.
insertRule(acc, i, ft) ==
    IF ft = 0 THEN [acc EXCEPT !.thrown = i]
    ELSE [acc EXCEPT !.parent[i] = ft, !.promiseList = @ \cup {i}]

\* insertParam taking the rule as cleared by a FeatureType line that lies
\* between the Rule line and the Field line.
insertParamScoped(acc, i, rule) ==
    IF rule = 0 \/ \E j \in (rule + 1)..(i - 1) : lines[j].kind = "FeatureType"
    THEN [acc EXCEPT !.thrown = i]
    ELSE [acc EXCEPT !.parent[i] = rule, !.promiseList = @ \cup {i}]

\* A Field line: insertParam(ruleInserted, fieldList).
insertParam(acc, i, rule) ==
    IF rule = 0 THEN [acc EXCEPT !.thrown = i]
    ELSE [acc EXCEPT !.parent[i] = rule, !.promiseList = @ \cup {i}]

\* insertFeatureType putting its insert in front of the ones submitted
\* before it.
insertFeatureTypeFirst(acc, i) ==
    [acc EXCEPT !.submit = <<i>> \o @, !.promiseList = @ \cup {i}]

\* A FeatureType line: insertFeatureType(templateId) submits the insert.
insertFeatureType(acc, i) ==
    [acc EXCEPT !.submit = Append(@, i), !.promiseList = @ \cup {i}]

\* The for loop: ft and rule are the lines of featureTypeInserted and
\* ruleInserted (0: undefined).
RECURSIVE ParseLoop(_, _, _, _, _)
ParseLoop(ls, i, ft, rule, acc) ==
    IF i > Len(ls) \/ acc.thrown # 0 THEN acc
    ELSE IF ls[i].kind = "FeatureType"
         THEN ParseLoop(ls, i + 1, i, rule, insertFeatureType(acc, i))
    ELSE IF ls[i].kind = "Rule"
         THEN ParseLoop(ls, i + 1, ft, i, insertRule(acc, i, ft))
    ELSE ParseLoop(ls, i + 1, ft, rule, insertParam(acc, i, rule))

(***************************************************************************)
(* store.js: run()                                                         *)
(***************************************************************************)
NoErr == [kind |-> "none", line |-> 0]

\* What the callbacks of one completed statement do to run(): pst1 is the
\* promise map after the completion, subs the statements its callbacks
\* submit, rej = <<kind, line>> a rejection that reaches parseConfig's defer
\* (<<>>: none).  A rejection of the pending `ready` runs abort() and
\* console.error; Promise.all (attached once the loop has ended) fulfilling
\* the pending `ready` runs finish().
Settle(rest, pst1, subs, rej, lg) ==
    LET allOk == pc = "parsed" /\ \A i \in promiseList : pst1[i] = "ok"
        how == IF ready # "pending" THEN "none"
               ELSE IF rej # <<>> THEN "reject"
               ELSE IF allOk THEN "resolve" ELSE "none"
        last == IF how = "reject" THEN <<Ctl("ROLLBACK", 0)>>
                ELSE IF how = "resolve" THEN <<Ctl("COMMIT", 0)>> ELSE <<>>
        sent == IF closed THEN <<>> ELSE subs \o last
    IN  /\ queue' = rest \o sent
        /\ log' = log \o lg \o Submits(sent)
        /\ pst' = pst1
        /\ ready' = IF how = "reject" THEN "rejected"
                    ELSE IF how = "resolve" THEN "resolved" ELSE ready
        /\ err' = IF how = "reject" THEN [kind |-> rej[1], line |-> rej[2]]
                  ELSE err
        /\ outcome' = IF how = "reject" THEN "error" ELSE outcome

\* inserter.connect('db.json'): this.db.begin() is evaluated at once.
connect ==
    /\ pc = "start"
    /\ pc' = "connected"
    /\ queue' = Append(queue, Ctl("BEGIN", 0))
    /\ log' = log \o Submits(<<Ctl("BEGIN", 0)>>)
    /\ UNCHANGED <<lines, promiseList, parentOf, pst, idOf, ready, err, outcome,
                   closed, tx, db, work, nextId, faults, cfgVars, selVars>>

\* insertTemplate: the template file has been read.
insertTemplate ==
    /\ pc = "connected"
    /\ pc' = "template"
    /\ queue' = Append(queue, Ctl("INSERT_TEMPLATE", 0))
    /\ log' = log \o Submits(<<Ctl("INSERT_TEMPLATE", 0)>>)
    /\ UNCHANGED <<lines, promiseList, parentOf, pst, idOf, ready, err, outcome,
                   closed, tx, db, work, nextId, faults, cfgVars, selVars>>

\* The name insertTemplate stores with every template.
TemplateName == "foobar"

\* The display name of the upload in the spec's end-to-end example.
UploadName == "T1"

\* What console.error (line 345) is handed: 'Error inserting <kind>: ' and
\* the error it wraps.  The text carries no line number (line 0).
ErrorOutput == [kind |-> err.kind, line |-> 0]

\* The template insert completes: insertConfig follows, or `ready` rejects.
TemplateDone(f) ==
    /\ HeadIs("INSERT_TEMPLATE")
    /\ Fault(f)
    /\ DbInsert(f, Row("template", nextId, 0, 0, TemplateName, 0))
    /\ pc' = IF f THEN "failed" ELSE "parse"
    /\ Settle(Tail(queue), pst, <<>>, IF f THEN <<"template", 0>> ELSE <<>>,
              Done(f, Head(queue)))
    /\ UNCHANGED <<lines, promiseList, parentOf, idOf, closed, cfgVars, selVars>>

FeatureTypeStmts(ls, tpl) ==
    [n \in 1..Len(ls) |-> Stmt("INSERT_FT", ls[n], tpl, 0, "", "")]

\* insertConfig -> parseConfig: the loop, then Promise.all(promiseList).
parseConfig ==
    /\ pc = "parse"
    /\ pc' = "parsed"
    /\ LET r == ParseLoop(lines, 1, 0, 0, NoScan(lines))
           tpl == Min({x.id : x \in {y \in work : y.tbl = "template"}})
           subs == FeatureTypeStmts(r.submit, tpl)
           how == IF r.thrown # 0 THEN "reject"
                  ELSE IF r.promiseList = {} THEN "resolve" ELSE "none"
           last == IF how = "reject" THEN <<Ctl("ROLLBACK", 0)>>
                   ELSE IF how = "resolve" THEN <<Ctl("COMMIT", 0)>> ELSE <<>>
       IN  /\ promiseList' = r.promiseList
           /\ parentOf' = r.parent
           /\ pst' = [i \in 1..Len(lines) |->
                         IF i \in r.promiseList THEN "pending" ELSE "none"]
           /\ queue' = queue \o subs \o last
           /\ log' = log \o Submits(subs \o last)
           /\ ready' = IF how = "reject" THEN "rejected"
                       ELSE IF how = "resolve" THEN "resolved" ELSE ready
           /\ err' = IF how = "reject"
                     THEN [kind |-> "TypeError", line |-> r.thrown] ELSE err
           /\ outcome' = IF how = "reject" THEN "error" ELSE outcome
    /\ UNCHANGED <<lines, idOf, closed, tx, db, work, nextId, faults, cfgVars, selVars>>

ChildrenOf(i, kind) ==
    {j \in 1..Len(lines) : parentOf[j] = i /\ lines[j].kind = kind}

RuleStmts(js, featureTypeId) ==
    [n \in 1..Len(js) |-> Stmt("INSERT_RULE", js[n], featureTypeId, 0, "", "")]

\* insertFeatureType's insert completes; the insertRule callbacks waiting on
\* it run (fieldList[3].split throws for a line without that field).
FeatureTypeDone(f) ==
    /\ HeadIs("INSERT_FT")
    /\ Fault(f)
    /\ LET s == Head(queue)
           i == s.who
           kids == ChildrenOf(i, "Rule")
           bad == {j \in kids : ~lines[j].ok}
           pst1 == [j \in 1..Len(lines) |->
                      IF j = i THEN (IF f THEN "rejected" ELSE "ok")
                      ELSE IF j \in kids /\ (f \/ j \in bad) THEN "rejected"
                      ELSE pst[j]]
           subs == IF f THEN <<>>
                   ELSE RuleStmts(SortedSeq(kids \ bad), nextId)
           rej == IF f THEN <<"featuretype", i>>
                  ELSE IF bad # {} THEN <<"rule", Min(bad)>> ELSE <<>>
       IN  /\ DbInsert(f, Row("featuretype", nextId, s.parent, 0, "", i))
           /\ idOf' = IF f THEN idOf ELSE [idOf EXCEPT ![i] = nextId]
           /\ Settle(Tail(queue), pst1, subs, rej, Done(f, s))
    /\ UNCHANGED <<lines, pc, promiseList, parentOf, closed, cfgVars, selVars>>

SelectStmts(ks, ruleId) ==
    [n \in 1..Len(ks) |->
        Stmt("SELECT_TYPE", ks[n], ruleId, 0, lines[ks[n]].key, "")]

\* insertRule's insert completes; the insertParam callbacks waiting on it
\* submit their type lookups.
RuleDone(f) ==
    /\ HeadIs("INSERT_RULE")
    /\ Fault(f)
    /\ LET s == Head(queue)
           j == s.who
           pst1 == [pst EXCEPT ![j] = IF f THEN "rejected" ELSE "ok"]
           subs == IF f THEN <<>>
                   ELSE SelectStmts(SortedSeq(ChildrenOf(j, "Field")), nextId)
           rej == IF f THEN <<"rule", j>> ELSE <<>>
       IN  /\ DbInsert(f, Row("rule", nextId, s.parent, 0, "", j))
           /\ idOf' = IF f THEN idOf ELSE [idOf EXCEPT ![j] = nextId]
           /\ Settle(Tail(queue), pst1, subs, rej, Done(f, s))
    /\ UNCHANGED <<lines, pc, promiseList, parentOf, closed, cfgVars, selVars>>

ParamStmt(s, typeId, src) ==
    Stmt("INSERT_PARAM", s.who, s.parent, typeId, s.text, src)

\* typeFound settles.  Fulfilled with row t: typeFound.then (line 228)
\* inserts a param, and typeFound.catch(...) passes t on to its .then
\* (line 244), which inserts a param too.  Rejected ('Not found' or a
\* database error): the catch handler inserts the type.
TypeFoundStmts(s, f, t) ==
    IF f \/ t = 0 THEN <<Stmt("INSERT_TYPE", s.who, s.parent, 0, s.text, "")>>
    ELSE <<ParamStmt(s, t, "L229"), ParamStmt(s, t, "L245")>>

\* The type lookup completes; result is the last row the query emitted.
SelectTypeDone(f) ==
    /\ HeadIs("SELECT_TYPE")
    /\ Fault(f)
    /\ LET s == Head(queue)
           found == {r.id : r \in {x \in work : x.tbl = "type" /\ x.text = s.text}}
       IN  \E t \in (IF found = {} \/ f THEN {0} ELSE found) :
              /\ DbRead(f)
              /\ Settle(Tail(queue), pst, TypeFoundStmts(s, f, t), <<>>,
                        Done(f, s))
    /\ UNCHANGED <<lines, pc, promiseList, parentOf, idOf, closed, cfgVars, selVars>>

\* The sld_type insert completes: the param insert follows, or the error
\* reaches defer.reject (line 252).
InsertTypeDone(f) ==
    /\ HeadIs("INSERT_TYPE")
    /\ Fault(f)
    /\ LET s == Head(queue)
           k == s.who
           pst1 == IF f /\ pst[k] = "pending"
                   THEN [pst EXCEPT ![k] = "rejected"] ELSE pst
           subs == IF f THEN <<>> ELSE <<ParamStmt(s, nextId, "L245")>>
           rej == IF f /\ pst[k] = "pending" THEN <<"field", k>> ELSE <<>>
       IN  /\ DbInsert(f, Row("type", nextId, 0, 0, s.text, k))
           /\ Settle(Tail(queue), pst1, subs, rej, Done(f, s))
    /\ UNCHANGED <<lines, pc, promiseList, parentOf, idOf, closed, cfgVars, selVars>>

\* An sld_param insert completes: defer.resolve() on success; a failure has
\* no handler.
InsertParamDone(f) ==
    /\ HeadIs("INSERT_PARAM")
    /\ Fault(f)
    /\ LET s == Head(queue)
           k == s.who
           pst1 == IF ~f /\ pst[k] = "pending"
                   THEN [pst EXCEPT ![k] = "ok"] ELSE pst
       IN  /\ DbInsert(f, Row("param", nextId, s.parent, s.ref, "", k))
           /\ Settle(Tail(queue), pst1, <<>>, <<>>, Done(f, s))
    /\ UNCHANGED <<lines, pc, promiseList, parentOf, idOf, closed, cfgVars, selVars>>

\* this.db.close after COMMIT or ROLLBACK: client.end().  The statement
\* that was next in the queue has been sent already and may still run; the
\* ones behind it are never sent.
InFlight(rest) ==
    {<<>>} \cup (IF rest = <<>> THEN {} ELSE {<<Head(rest)>>})

\* finish(): COMMIT completes, the connection is closed, 'Success!'.
CommitDone ==
    /\ HeadIs("COMMIT")
    /\ pc # "cfg"
    /\ DbCommit
    /\ closed' = TRUE
    /\ outcome' = "success"
    /\ \E q \in InFlight(Tail(queue)) : queue' = q
    /\ log' = log \o Done(FALSE, Head(queue))
    /\ UNCHANGED <<lines, pc, promiseList, parentOf, pst, idOf, ready, err, cfgVars, selVars>>

\* abort(): ROLLBACK completes, the connection is closed.
RollbackDone ==
    /\ HeadIs("ROLLBACK")
    /\ pc # "cfg"
    /\ DbRollback
    /\ closed' = TRUE
    /\ \E q \in InFlight(Tail(queue)) : queue' = q
    /\ log' = log \o Done(FALSE, Head(queue))
    /\ UNCHANGED <<lines, pc, promiseList, parentOf, pst, idOf, ready, err, outcome,
                   cfgVars, selVars>>

NoCalls == <<>>

\* No query is being followed.
NoQuery ==
    [events |-> <<>>, seen |-> <<>>, result |-> 0, state |-> "none",
     value |-> 0, reason |-> ""]

Init ==
    /\ lines \in Inputs
    /\ pc = "start"
    /\ promiseList = {}
    /\ parentOf = [i \in 1..Len(lines) |-> 0]
    /\ pst = [i \in 1..Len(lines) |-> "none"]
    /\ idOf = [i \in 1..Len(lines) |-> 0]
    /\ ready = "pending"
    /\ err = NoErr
    /\ outcome = "running"
    /\ closed = FALSE
    /\ queue = <<>>
    /\ tx = "idle"
    /\ \E ks \in SUBSET Keys : db = CatalogRows(ks)
    /\ work = db
    /\ nextId = FirstId
    /\ faults = 0
    /\ log = <<>>
    /\ calls = NoCalls
    /\ config_id = 0
    /\ selects = NoCalls
    /\ result = <<>>
    /\ query = NoQuery

Next ==
    \/ connect
    \/ insertTemplate
    \/ BeginDone
    \/ \E f \in BOOLEAN : TemplateDone(f)
    \/ parseConfig
    \/ \E f \in BOOLEAN : FeatureTypeDone(f)
    \/ \E f \in BOOLEAN : RuleDone(f)
    \/ \E f \in BOOLEAN : SelectTypeDone(f)
    \/ \E f \in BOOLEAN : InsertTypeDone(f)
    \/ \E f \in BOOLEAN : InsertParamDone(f)
    \/ CommitDone
    \/ RollbackDone

Spec == Init /\ [][Next]_vars

(***************************************************************************)
(* Properties of the ingestion (store.js)                                  *)
(***************************************************************************)
Issued(op) == \E n \in 1..Len(log) : log[n].ev = "submit" /\ log[n].op = op

FailedOps == {log[n].op : n \in {m \in 1..Len(log) : log[m].ev = "fail"}}

\* run() has returned and every statement it sent has completed.
Quiet == pc \in {"parsed", "failed"} /\ queue = <<>>

\* Rows that did not exist before the run.
NewRows(d) == {r \in d : r.id >= FirstId}

RowsOf(d, tbl) == {r \in d : r.tbl = tbl}

\* The run committed: 'Success!' and no statement of it failed.
Committed == outcome = "success" /\ FailedOps = {}

FieldLines == {k \in 1..Len(lines) : lines[k].kind = "Field"}

\* The nearest line of the kind before line i (0: none).
LastBefore(i, kind) ==
    LET S == {j \in 1..(i - 1) : lines[j].kind = kind}
    IN  IF S = {} THEN 0 ELSE CHOOSE m \in S : \A x \in S : x <= m

\* The first Rule line without a FeatureType line before it, or Field line
\* without a Rule line before it (0: none).
FirstOrphan ==
    LET S == {i \in 1..Len(lines) :
                 \/ lines[i].kind = "Rule" /\ LastBefore(i, "FeatureType") = 0
                 \/ lines[i].kind = "Field" /\ LastBefore(i, "Rule") = 0}
    IN  IF S = {} THEN 0 ELSE Min(S)

\* C1: an ingestion that ended with an error caused by a line leaves, once
\* all its statements have finished, no row it created in the database.
C1_Atomicity ==
    (Quiet /\ outcome = "error" /\ err.line >= 1) => NewRows(db) = {}

\* C2: the ingestion never creates two sld_type rows with the same
\* symbolizer key, and after a commit every param row of a Field line
\* refers to the one type row with the key of its line.
C2_TypeDedup ==
    /\ \A t1, t2 \in NewRows(RowsOf(work, "type")) :
          t1.text = t2.text => t1 = t2
    /\ Committed =>
          \A p \in RowsOf(db, "param") :
             \A t \in RowsOf(db, "type") :
                t.text = lines[p.origin].key => p.ref = t.id

\* C3: after a commit every Field line has exactly one param row, attached
\* to the row of the current rule and carrying the id of a type row with
\* the key of the line.
C3_OneParamPerField ==
    Committed =>
       \A k \in FieldLines :
          LET ps == {p \in RowsOf(db, "param") : p.origin = k}
          IN  /\ Cardinality(ps) = 1
              /\ \A p \in ps :
                    /\ p.parent = idOf[LastBefore(k, "Rule")]
                    /\ \E t \in RowsOf(db, "type") :
                          t.id = p.ref /\ t.text = lines[k].key

\* C4: once a feature type insert, rule insert, type lookup, type insert or
\* param insert has failed, the run does not come to rest without having
\* issued ROLLBACK and reported the error.
C4_FailureRollsBack ==
    (Quiet /\ FailedOps \cap {"INSERT_FT", "INSERT_RULE", "SELECT_TYPE",
                              "INSERT_TYPE", "INSERT_PARAM"} # {})
       => (Issued("ROLLBACK") /\ outcome = "error")

\* C6: every rule row is attached to the feature type row of the nearest
\* preceding FeatureType line and every param row to the rule row of the
\* nearest preceding Rule line; inside the transaction and after a commit
\* that parent row is there.
C6_Parenting ==
    \A r \in work \cup db :
       /\ r.tbl = "rule" =>
             /\ LastBefore(r.origin, "FeatureType") # 0
             /\ r.parent = idOf[LastBefore(r.origin, "FeatureType")]
             /\ (~closed \/ Committed) =>
                   \E p \in RowsOf(work, "featuretype") :
                      p.id = r.parent
                      /\ p.origin = LastBefore(r.origin, "FeatureType")
       /\ r.tbl = "param" =>
             /\ LastBefore(r.origin, "Rule") # 0
             /\ r.parent = idOf[LastBefore(r.origin, "Rule")]
             /\ (~closed \/ Committed) =>
                   \E p \in RowsOf(work, "rule") :
                      p.id = r.parent /\ p.origin = LastBefore(r.origin, "Rule")

\* C6 witness: the ordering example committed, F3 under R2, F1 and F2 under
\* R1, R1 and R2 under A.
C6_Witness ==
    /\ lines = OrderingExample
    /\ Committed
    /\ \E a \in RowsOf(db, "featuretype"), r1, r2 \in RowsOf(db, "rule"),
          f1, f2, f3 \in RowsOf(db, "param") :
          /\ a.origin = 1 /\ r1.origin = 2 /\ r2.origin = 5
          /\ f1.origin = 3 /\ f2.origin = 4 /\ f3.origin = 6
          /\ r1.parent = a.id /\ r2.parent = a.id /\ r1.id # r2.id
          /\ f1.parent = r1.id /\ f2.parent = r1.id /\ f3.parent = r2.id

LogEvents(ev, ops) ==
    {n \in 1..Len(log) : log[n].ev = ev /\ log[n].op \in ops}

\* C17: once COMMIT or ROLLBACK has been submitted, the ingestion submits no
\* further statement to the client.
C17_ClosedAfterTerminal ==
    \A n \in LogEvents("submit", {"COMMIT", "ROLLBACK"}) :
       \A m \in 1..Len(log) : m > n => log[m].ev # "submit"

\* A row of table tbl with id id, created by the run, is in d.
Persisted(d, tbl, id) == \E p \in NewRows(d) : p.tbl = tbl /\ p.id = id

\* C18: once the run has committed or rolled back, every feature type, rule
\* and param row it left in the database has its parent row (template,
\* feature type, rule) in the database, created by the same run.
C18_ParentsPersisted ==
    closed =>
       \A r \in NewRows(db) :
          /\ r.tbl = "featuretype" => Persisted(db, "template", r.parent)
          /\ r.tbl = "rule" => Persisted(db, "featuretype", r.parent)
          /\ r.tbl = "param" => Persisted(db, "rule", r.parent)

\* C19: the end-to-end example, run without a database fault on an empty
\* sld_type table, commits and leaves one template, one feature type, one
\* rule, one type row with key "point-color" and one param row.
C19_EndToEnd ==
    (/\ lines = EndToEndExample
     /\ RowsOf(db, "type") \subseteq NewRows(db)
     /\ faults = 0
     /\ Quiet)
       => /\ Committed
          /\ \A tbl \in {"template", "featuretype", "rule", "type", "param"} :
                Cardinality(RowsOf(NewRows(db), tbl)) = 1
          /\ \A t \in RowsOf(NewRows(db), "type") : t.text = "point-color"

\* C20: when COMMIT is submitted every statement the ingestion submitted
\* before it has completed successfully, nothing is submitted after it, and
\* the run that submitted it comes to rest reporting success.
C20_CommitLast ==
    \A n \in LogEvents("submit", {"COMMIT"}) :
       /\ \A m \in 1..(n - 1) :
             log[m].ev = "submit" =>
                \E k \in (m + 1)..(n - 1) :
                   log[k] = [log[m] EXCEPT !.ev = "ok"]
       /\ \A m \in (n + 1)..Len(log) : log[m].ev # "submit"
       /\ Quiet => outcome = "success"

\* C21: at most one statement of the load (other than BEGIN, COMMIT and
\* ROLLBACK) is submitted and not yet completed at any time.
C21_NoFanOut ==
    Cardinality({n \in 1..Len(queue) :
                    queue[n].op \notin {"BEGIN", "COMMIT", "ROLLBACK"}}) <= 1

\* C22: the feature type rows get their ids in the order of their lines,
\* and their inserts complete in that order.
C22_FeatureTypeOrder ==
    /\ \A r1, r2 \in RowsOf(work \cup db, "featuretype") :
          r1.origin < r2.origin => r1.id < r2.id
    /\ \A n, m \in LogEvents("ok", {"INSERT_FT"}) :
          n < m => log[n].who < log[m].who

\* C22 witness: a committed run with two FeatureType lines, both rows stored.
C22_Witness ==
    /\ Committed
    /\ \E r1, r2 \in RowsOf(db, "featuretype") : r1.origin < r2.origin

\* The symbolizer keys that were in sld_type before the run.
CatalogKeys == {t.text : t \in {r \in RowsOf(db, "type") : r.id < FirstId}}

\* C23: the rows that were in sld_type before the run are unchanged;
\* the run inserts a type row only for a Field line whose key was not in
\* the table, with that key, at most one per Field line and exactly one
\* once committed; a param row carries the id of the existing row of its
\* key, or of the row inserted for its line.
C23_FindOrCreate ==
    /\ \A r \in work \cup db :
          r.id < FirstId => r \in CatalogRows(Keys) /\ r \in work /\ r \in db
    /\ \A t \in NewRows(RowsOf(work \cup db, "type")) :
          /\ lines[t.origin].kind = "Field"
          /\ t.text = lines[t.origin].key
          /\ t.text \notin CatalogKeys
          /\ \A u \in NewRows(RowsOf(work \cup db, "type")) :
                u.origin = t.origin => u = t
    /\ (~closed \/ Committed) =>
          \A p \in RowsOf(work \cup db, "param") :
             IF lines[p.origin].key \in CatalogKeys
             THEN p.ref = KeyId(lines[p.origin].key)
             ELSE \E t \in RowsOf(work, "type") :
                     t.id = p.ref /\ t.origin = p.origin
    /\ Committed =>
          \A k \in FieldLines :
             lines[k].key \notin CatalogKeys =>
                \E t \in RowsOf(db, "type") : t.origin = k

\* C24: a type lookup that failed with a database error is not followed by
\* a type insert for its line, no type row is stored for the line, and the
\* run ends with an error.
C24_FaultIsNotAbsence ==
    \A n \in LogEvents("fail", {"SELECT_TYPE"}) :
       /\ \A m \in LogEvents("submit", {"INSERT_TYPE"}) :
             log[m].who # log[n].who
       /\ \A t \in RowsOf(work \cup db, "type") : t.origin # log[n].who
       /\ Quiet => outcome = "error"

\* C27: the error output of a failed ingestion names the number and the
\* kind of the line whose statement failed first.
C27_ErrorNamesLine ==
    (outcome = "error" /\ err.line >= 1) =>
       /\ ErrorOutput.line = err.line
       /\ ErrorOutput.kind = lines[err.line].kind

\* C28: the template row of the run carries the display name of the upload.
C28_TemplateName ==
    \A t \in NewRows(RowsOf(work \cup db, "template")) : t.text = UploadName

\* C30: after ROLLBACK has been submitted the ingestion submits no
\* statement, and no statement of it completes after ROLLBACK has.
C30_NothingAfterRollback ==
    /\ \A n \in LogEvents("submit", {"ROLLBACK"}) :
          \A m \in 1..Len(log) : m > n => log[m].ev # "submit"
    /\ \A n \in LogEvents("ok", {"ROLLBACK"}) :
          \A m \in 1..Len(log) : m > n => log[m].ev \notin {"ok", "fail"}

\* The lines of the spec's example of a FeatureType line between a Rule
\* line and a Field line.
FeatureTypeBetween ==
    << FeatureTypeLine, RuleLine(TRUE), FeatureTypeLine,
       FieldLine("point-color") >>

\* C33: for [FeatureType A, Rule R1, FeatureType B, Field F] every param
\* row of F is attached to the row of R1, the row of R1 to the row of A,
\* and a run without a database fault commits with a param row for F.
C33_RuleSurvivesFeatureType ==
    lines = FeatureTypeBetween =>
       /\ \A p \in RowsOf(work \cup db, "param") :
             p.origin = 4 /\ idOf[2] # 0 /\ p.parent = idOf[2]
       /\ \A r \in RowsOf(work \cup db, "rule") :
             r.origin = 2 /\ idOf[1] # 0 /\ r.parent = idOf[1]
       /\ (Quiet /\ faults = 0) =>
             /\ Committed
             /\ \E p \in RowsOf(db, "param"), r \in RowsOf(db, "rule"),
                   a \in RowsOf(db, "featuretype") :
                   /\ p.origin = 4 /\ r.origin = 2 /\ a.origin = 1
                   /\ p.parent = r.id /\ r.parent = a.id

\* C33 witness: the example has committed, F under R1 under A, and the
\* feature type row of B is stored too.
C33_Witness ==
    /\ lines = FeatureTypeBetween
    /\ Committed
    /\ \E p \in RowsOf(db, "param"), b \in RowsOf(db, "featuretype") :
          p.origin = 4 /\ p.parent = idOf[2] /\ b.origin = 3

\* C34: the param rows get their ids in the order of their Field lines.
C34_ParamOrder ==
    \A p1, p2 \in RowsOf(work \cup db, "param") :
       p1.origin < p2.origin => p1.id < p2.id

(***************************************************************************)
(* update_config.js on the client of app.js                                *)
(***************************************************************************)
Configs == {1, 2}

Entry(p, v) == [param_id |-> p, value |-> v]

Entries == {Entry(1, "5"), Entry(2, "9")}

\* The value list of the spec's replace-rollback example.
ThreeValues == <<Entry(1, "5"), Entry(2, "9"), Entry(2, "5")>>

ValueLists == SeqsUpTo(Entries, MaxValues) \cup {ThreeValues}

\* sld_config and sld_value rows present before the first call: config 1
\* has one stored value, config 2 none.
InitialRows ==
    {Row("config", c, 0, 0, "uuid", 0) : c \in Configs}
       \cup {Row("value", 1, 1, 1, "1", 0)}

\* The (param_id, value) pairs stored for config cfg in d, in id order.
Stored(d, cfg) ==
    LET rs == {r \in d : r.tbl = "value" /\ r.parent = cfg}
        ids == SortedSeq({r.id : r \in rs})
    IN  [n \in 1..Len(ids) |->
            LET r == CHOOSE x \in rs : x.id = ids[n]
            IN  Entry(r.ref, r.text)]

Call(kind, cfg, values) ==
    [kind |-> kind, cfg |-> cfg, values |-> values, ready |-> "pending",
     inserted |-> 0, cb |-> <<>>, active |-> TRUE, overlap |-> FALSE,
     before |-> Stored(db, cfg), after |-> <<>>, trace |-> <<>>]

Callback(e, id, rows) == [err |-> e, id |-> id, rows |-> rows]

Updates == {c \in 1..Len(calls) : calls[c].kind = "update"}
Checks == {c \in 1..Len(calls) : calls[c].kind = "check"}

\* The history of a call is kept in its record: the events of its own
\* statements and of its callback, in order.
CallbackEvent == [ev |-> "callback", op |-> "", who |-> 0, src |-> ""]

Traced(cs, c, evs) == [cs EXCEPT ![c].trace = @ \o evs]

Send(ss) ==
    /\ queue' = queue \o ss
    /\ log' = log

Reply(ss) ==
    /\ queue' = Tail(queue) \o ss
    /\ log' = log

\* PgDatabase.begin() on the shared client: no callbacks.
CfgBeginDone ==
    /\ pc = "cfg"
    /\ HeadIs("BEGIN")
    /\ DbBegin
    /\ calls' = Traced(calls, Head(queue).who, Done(tx = "aborted", Head(queue)))
    /\ Reply(<<>>)
    /\ UNCHANGED <<storeVars, selVars, config_id>>

\* exports.update_config: connect() submits BEGIN, and `connected`, already
\* resolved, runs deleteConfig(fields.id) before any other event.
update_config(cfg, values) ==
    /\ pc = "cfg"
    /\ Cardinality(Updates) < MaxUpdates
    /\ LET c == Len(calls) + 1
           busy == \E d \in Updates : calls[d].active
           old == [d \in 1..Len(calls) |->
                      IF calls[d].kind = "update" /\ calls[d].active
                      THEN [calls[d] EXCEPT !.overlap = TRUE] ELSE calls[d]]
           ss == <<Ctl("BEGIN", c), Stmt("DELETE", c, cfg, 0, "", "")>>
       IN  /\ calls' = Append(old, [Call("update", cfg, values)
                                       EXCEPT !.overlap = busy,
                                              !.trace = Submits(ss)])
           /\ Send(ss)
    /\ UNCHANGED <<storeVars, selVars, config_id, tx, db, work, nextId, faults>>

\* exports.check_config_ownership: BEGIN, then getConfigOwner(config_id).
check_config_ownership(cfg) ==
    /\ pc = "cfg"
    /\ Cardinality(Checks) < MaxChecks
    /\ LET c == Len(calls) + 1
           ss == <<Ctl("BEGIN", c), Stmt("SELECT_OWNER", c, cfg, 0, "", "")>>
       IN  /\ calls' = Append(calls, [Call("check", cfg, <<>>)
                                         EXCEPT !.trace = Submits(ss)])
           /\ Send(ss)
    /\ UNCHANGED <<storeVars, selVars, config_id, tx, db, work, nextId, faults>>

\* ready.catch of update_config: inserter.abort(), then cb(err, 0).
abort(call, c) ==
    [call EXCEPT !.ready = "rejected",
                 !.cb = Append(@, Callback(TRUE, 0, <<>>)),
                 !.trace = @ \o Submits(<<Ctl("ROLLBACK", c)>>)
                             \o <<CallbackEvent>>]

\* ready.then of update_config: inserter.finish().
finish(call, c) ==
    [call EXCEPT !.ready = "resolved",
                 !.trace = @ \o Submits(<<Ctl("COMMIT", c)>>)]

\* ValueStmts inserting the values under the config id after fields.id.
ValueStmtsOther(c, cfg, values) ==
    [n \in 1..Len(values) |->
        Stmt("INSERT_VALUE", c, cfg + 1, values[n].param_id, values[n].value, "")]

ValueStmts(c, cfg, values) ==
    [n \in 1..Len(values) |->
        Stmt("INSERT_VALUE", c, cfg, values[n].param_id, values[n].value, "")]

\* deleteConfig completes.  On success insertValuesToConfig sets the global
\* config_id and parseConfig submits every insert; Promise.all of an empty
\* list resolves at once.
DeleteDone(f) ==
    /\ pc = "cfg"
    /\ HeadIs("DELETE")
    /\ Fault(f)
    /\ LET s == Head(queue)
           c == s.who
           gone == {r \in work : r.tbl = "value" /\ r.parent = s.parent}
           none == calls[c].values = <<>>
           subs == IF f THEN <<>> ELSE ValueStmts(c, s.parent, calls[c].values)
           last == IF f THEN <<Ctl("ROLLBACK", c)>>
                   ELSE IF none THEN <<Ctl("COMMIT", c)>> ELSE <<>>
           seen == Traced(calls, c, Done(f, s) \o Submits(subs))
       IN  /\ work' = IF f THEN work ELSE work \ gone
           /\ db' = IF ~f /\ tx = "idle" THEN db \ gone ELSE db
           /\ DbStatus(f)
           /\ config_id' = IF f THEN config_id ELSE s.parent
           /\ calls' = [seen EXCEPT ![c] =
                          IF f THEN abort(@, c)
                          ELSE IF none THEN finish(@, c) ELSE @]
           /\ Reply(subs \o last)
    /\ UNCHANGED <<storeVars, selVars, nextId>>

\* ValueDone resolving the defer of parseConfig when the first insert has
\* succeeded instead of when all have.
ValueDoneFirst(f) ==
    /\ pc = "cfg"
    /\ HeadIs("INSERT_VALUE")
    /\ Fault(f)
    /\ LET s == Head(queue)
           c == s.who
           n == calls[c].inserted + 1
           settles == calls[c].ready = "pending"
           last == IF ~settles THEN <<>>
                   ELSE IF f THEN <<Ctl("ROLLBACK", c)>> ELSE <<Ctl("COMMIT", c)>>
           seen == Traced(calls, c, Done(f, s))
           counted == IF f THEN seen ELSE [seen EXCEPT ![c].inserted = n]
       IN  /\ DbInsert(f, Row("value", nextId, s.parent, s.ref, s.text, c))
           /\ calls' = [counted EXCEPT ![c] =
                          IF ~settles THEN @
                          ELSE IF f THEN abort(@, c) ELSE finish(@, c)]
           /\ Reply(last)
    /\ UNCHANGED <<storeVars, selVars, config_id>>

\* An insertSldValue insert completes: its catch handler rejects the defer
\* of parseConfig, Promise.all resolves it once every insert has succeeded.
ValueDone(f) ==
    /\ pc = "cfg"
    /\ HeadIs("INSERT_VALUE")
    /\ Fault(f)
    /\ LET s == Head(queue)
           c == s.who
           n == calls[c].inserted + 1
           all == ~f /\ n = Len(calls[c].values)
           settles == calls[c].ready = "pending" /\ (f \/ all)
           last == IF ~settles THEN <<>>
                   ELSE IF f THEN <<Ctl("ROLLBACK", c)>> ELSE <<Ctl("COMMIT", c)>>
           seen == Traced(calls, c, Done(f, s))
           counted == IF f THEN seen ELSE [seen EXCEPT ![c].inserted = n]
       IN  /\ DbInsert(f, Row("value", nextId, s.parent, s.ref, s.text, c))
           /\ calls' = [counted EXCEPT ![c] =
                          IF ~settles THEN @
                          ELSE IF f THEN abort(@, c) ELSE finish(@, c)]
           /\ Reply(last)
    /\ UNCHANGED <<storeVars, selVars, config_id>>

\* A COMMIT that fails (a deferred constraint, a serialization failure):
\* the server rolls the block back.
DbCommitFail ==
    /\ work' = db
    /\ tx' = "idle"
    /\ faults' = faults + 1
    /\ UNCHANGED <<db, nextId>>

\* finish() completes.  Fulfilled: cb(false, config_id) with the global
\* config_id.  Rejected: the promise of ready.then(...).then(...) has no
\* rejection handler, cb is not called.
CfgCommitDone(f) ==
    /\ pc = "cfg"
    /\ HeadIs("COMMIT")
    /\ f => faults < MaxFaults
    /\ IF f THEN DbCommitFail ELSE DbCommit
    /\ LET c == Head(queue).who
           seen == Traced(calls, c,
                          Done(f, Head(queue))
                             \o (IF f THEN <<>> ELSE <<CallbackEvent>>))
       IN  calls' = [seen EXCEPT
                        ![c].cb = IF f THEN @
                                  ELSE Append(@, Callback(FALSE, config_id, <<>>)),
                        ![c].active = FALSE,
                        ![c].after = Stored(db', calls[c].cfg)]
    /\ Reply(<<>>)
    /\ UNCHANGED <<storeVars, selVars, config_id>>

\* abort() completes; its promise has no callbacks.
CfgRollbackDone ==
    /\ pc = "cfg"
    /\ HeadIs("ROLLBACK")
    /\ DbRollback
    /\ LET c == Head(queue).who
           seen == Traced(calls, c, Done(FALSE, Head(queue)))
       IN  calls' = [seen EXCEPT ![c].active = FALSE,
                                 ![c].after = Stored(db', calls[c].cfg)]
    /\ Reply(<<>>)
    /\ UNCHANGED <<storeVars, selVars, config_id>>

\* getConfigOwner completes.  Fulfilled: result = res and cb(false, result).
\* Rejected: ready.catch finds result still [] and calls cb(false, result).
\* Neither path commits or rolls back.
OwnerDone(f) ==
    /\ pc = "cfg"
    /\ HeadIs("SELECT_OWNER")
    /\ Fault(f)
    /\ LET s == Head(queue)
           c == s.who
           found == {r \in work : r.tbl = "config" /\ r.id = s.parent}
           res == IF f \/ found = {} THEN <<>> ELSE <<"uuid">>
           seen == Traced(calls, c, Done(f, s) \o <<CallbackEvent>>)
       IN  calls' = [seen EXCEPT ![c].ready = IF f THEN "rejected" ELSE "resolved",
                                 ![c].cb = Append(@, Callback(FALSE, 0, res)),
                                 ![c].active = FALSE]
    /\ DbRead(f)
    /\ Reply(<<>>)
    /\ UNCHANGED <<storeVars, selVars, config_id>>

InitCfg ==
    /\ lines = <<>>
    /\ pc = "cfg"
    /\ promiseList = {}
    /\ parentOf = <<>>
    /\ pst = <<>>
    /\ idOf = <<>>
    /\ ready = "pending"
    /\ err = NoErr
    /\ outcome = "running"
    /\ closed = FALSE
    /\ queue = <<>>
    /\ tx = "idle"
    /\ db = InitialRows
    /\ work = db
    /\ nextId = FirstId
    /\ faults = 0
    /\ log = <<>>
    /\ calls = NoCalls
    /\ config_id = 0
    /\ selects = NoCalls
    /\ result = <<>>
    /\ query = NoQuery

NextCfg ==
    \/ \E cfg \in Configs, values \in ValueLists : update_config(cfg, values)
    \/ \E cfg \in Configs \cup {0} : check_config_ownership(cfg)
    \/ CfgBeginDone
    \/ \E f \in BOOLEAN : DeleteDone(f)
    \/ \E f \in BOOLEAN : ValueDone(f)
    \/ \E f \in BOOLEAN : OwnerDone(f)
    \/ \E f \in BOOLEAN : CfgCommitDone(f)
    \/ CfgRollbackDone

SpecCfg == InitCfg /\ [][NextCfg]_vars

(***************************************************************************)
(* Properties of update_config.js                                          *)
(***************************************************************************)
CallIssued(c, op) ==
    Cardinality({n \in 1..Len(calls[c].trace) :
                    calls[c].trace[n].ev = "submit" /\ calls[c].trace[n].op = op})

CallFailed(c, ops) ==
    \E n \in 1..Len(calls[c].trace) :
       calls[c].trace[n].ev = "fail" /\ calls[c].trace[n].op \in ops

\* The update_config calls on config cfg, in call order.
UpdatesOf(cfg) == {c \in Updates : calls[c].cfg = cfg}

\* C5: a Unit-of-Work that issued BEGIN and has handed its result to its
\* callback (nothing of it is left to run) has issued exactly one of COMMIT
\* and ROLLBACK.
C5_OneTerminalStatement ==
    \A c \in 1..Len(calls) :
       (CallIssued(c, "BEGIN") = 1 /\ ~calls[c].active /\ calls[c].cb # <<>>)
          => CallIssued(c, "COMMIT") + CallIssued(c, "ROLLBACK") = 1

\* C8: when the DELETE or a value insert of an update_config call fails,
\* then after the call the values of its config are what they were before
\* it, and the callback got the error.  (Stated for a call that is the only
\* update_config call on its config, so that nothing else may change them.)
C8_ReplaceRollback ==
    \A c \in Updates :
       (/\ CallFailed(c, {"DELETE", "INSERT_VALUE"})
        /\ ~calls[c].active
        /\ UpdatesOf(calls[c].cfg) = {c})
          => /\ Stored(db, calls[c].cfg) = calls[c].before
             /\ calls[c].cb = <<Callback(TRUE, 0, <<>>)>>

\* C9: when every update_config call so far succeeded, none overlapped
\* another and all are over, each config that was updated holds exactly the
\* entries of the last call on it, one row per entry.
C9_ReplaceExclusivity ==
    (\A c \in Updates :
        /\ ~calls[c].active
        /\ ~calls[c].overlap
        /\ calls[c].cb = <<Callback(FALSE, calls[c].cfg, <<>>)>>)
       => \A cfg \in Configs :
             UpdatesOf(cfg) # {} =>
                Stored(db, cfg) =
                   calls[CHOOSE m \in UpdatesOf(cfg) :
                            \A x \in UpdatesOf(cfg) : x <= m].values

\* C10: the committed values of a config are at every moment the complete
\* set before any replace or the complete set of one update_config call on
\* that config.
C10_NoPartialValueSet ==
    \A cfg \in Configs :
       \/ Stored(db, cfg) = Stored(InitialRows, cfg)
       \/ \E c \in UpdatesOf(cfg) : Stored(db, cfg) = calls[c].values

\* The positions of the events ev of statement op in the history of call c.
CallEvents(c, ev, op) ==
    {n \in 1..Len(calls[c].trace) :
        calls[c].trace[n].ev = ev /\ calls[c].trace[n].op = op}

\* The call is over and its callback got an error / got no error.
CallErred(c) ==
    ~calls[c].active /\ calls[c].cb # <<>> /\ calls[c].cb[1].err
CallSucceeded(c) ==
    ~calls[c].active /\ calls[c].cb # <<>> /\ ~calls[c].cb[1].err

\* C11: of two update_config calls on different configs (no ownership check
\* running), when one ended with an error and the other with success, the
\* failed call's config holds the values it had before and the other
\* config holds exactly the values of the successful call.
C11_IndependentTransactions ==
    \A c, d \in Updates :
       (/\ Checks = {}
        /\ calls[c].cfg # calls[d].cfg
        /\ CallErred(c)
        /\ CallSucceeded(d))
          => /\ Stored(db, calls[c].cfg) = calls[c].before
             /\ Stored(db, calls[d].cfg) = calls[d].values

\* C12: after an update_config call that ended with success, no two
\* sld_value rows of its config carry the same param_id.
C12_UniqueParamPerConfig ==
    \A c \in Updates :
       CallSucceeded(c) =>
          \A r1, r2 \in RowsOf(db, "value") :
             (r1.parent = calls[c].cfg /\ r2.parent = calls[c].cfg
              /\ r1.ref = r2.ref) => r1 = r2

\* C13: check_config_ownership hands its callback an error when the owner
\* query failed, and no error with an empty result when the query ran and
\* the config does not exist.
C13_AbsenceVsFailure ==
    \A c \in Checks :
       calls[c].cb # <<>> =>
          IF CallFailed(c, {"SELECT_OWNER"})
          THEN calls[c].cb[1].err
          ELSE calls[c].cfg \notin Configs =>
                  calls[c].cb = <<Callback(FALSE, 0, <<>>)>>

\* C14: the callback of a failed update_config call gets the error only
\* after the ROLLBACK of the call has completed.
C14_RollbackBeforeReport ==
    \A c \in Updates :
       \A n \in CallEvents(c, "callback", "") :
          calls[c].cb[1].err =>
             \E m \in CallEvents(c, "ok", "ROLLBACK") : m < n

\* C15: an update_config call that is over has called its callback exactly
\* once, with an error when its DELETE, one of its inserts or its COMMIT
\* failed.
C15_NoFailureSwallowed ==
    \A c \in Updates :
       ~calls[c].active =>
          /\ Len(calls[c].cb) = 1
          /\ CallFailed(c, {"DELETE", "INSERT_VALUE", "COMMIT"}) =>
                calls[c].cb[1].err

\* C16: when the BEGIN of a call fails, the call submits no statement after
\* it (no value delete or insert, no owner query).
C16_ConnectFailureStops ==
    \A c \in 1..Len(calls) :
       CallFailed(c, {"BEGIN"}) =>
          \A b \in CallEvents(c, "submit", "BEGIN") :
             \A n \in 1..Len(calls[c].trace) :
                (n > b /\ calls[c].trace[n].ev = "submit")
                   => calls[c].trace[n].op \in {"ROLLBACK"}

\* C29: in the history of an update_config call every insert is submitted
\* after the DELETE has completed successfully, and when COMMIT is
\* submitted one insert per entry has been submitted and every one of them
\* has completed successfully.
C29_ReplaceOrdering ==
    \A c \in Updates :
       /\ \A n \in CallEvents(c, "submit", "INSERT_VALUE") :
             \E m \in CallEvents(c, "ok", "DELETE") : m < n
       /\ \A n \in CallEvents(c, "submit", "COMMIT") :
             /\ \A m \in CallEvents(c, "submit", "INSERT_VALUE") : m < n
             /\ \A m \in CallEvents(c, "fail", "INSERT_VALUE") : m > n
             /\ Cardinality(CallEvents(c, "submit", "INSERT_VALUE"))
                   = Len(calls[c].values)
             /\ Cardinality({m \in CallEvents(c, "ok", "INSERT_VALUE") : m < n})
                   = Len(calls[c].values)
             /\ \E m \in CallEvents(c, "ok", "DELETE") : m < n

\* C29 witness: a call with the three values of the example has committed.
C29_Witness ==
    \E c \in Updates :
       /\ calls[c].values = ThreeValues
       /\ CallSucceeded(c)
       /\ Stored(db, calls[c].cfg) = ThreeValues

(***************************************************************************)
(* querySingle (store.js, update_config.js): the event handlers of one     *)
(* query and the Deferred they settle.  A query emits 'row' once per row   *)
(* and then 'end', or 'error', or 'error' followed by 'end'.               *)
(***************************************************************************)
RowValues == {1, 2, 3}

QueryEvent(ev, row) == [ev |-> ev, row |-> row]

RowEvents == {QueryEvent("row", v) : v \in RowValues}

Endings ==
    { <<QueryEvent("end", 0)>>, <<QueryEvent("error", 0)>>,
      <<QueryEvent("error", 0), QueryEvent("end", 0)>> }

QueryRuns == {rs \o e : rs \in SeqsUpTo(RowEvents, MaxRows), e \in Endings}

\* Deferred: the promise takes the first resolve or reject.
resolve(q, v) ==
    IF q.state = "pending" THEN [q EXCEPT !.state = "resolved", !.value = v]
    ELSE q

reject(q, why) ==
    IF q.state = "pending" THEN [q EXCEPT !.state = "rejected", !.reason = why]
    ELSE q

Handled(q) == [q EXCEPT !.events = Tail(@), !.seen = Append(@, Head(q.events))]

NextEventIs(ev) ==
    pc = "query" /\ query.events # <<>> /\ Head(query.events).ev = ev

\* The 'end' handler without the test of result.
OnEndUnchecked ==
    /\ NextEventIs("end")
    /\ query' = resolve(Handled(query), query.result)
    /\ UNCHANGED <<storeVars, cfgVars, selects, result, queue, tx, db, work,
                   nextId, faults, log>>

\* query.on('row'): result = row.
OnRow ==
    /\ NextEventIs("row")
    /\ query' = [Handled(query) EXCEPT !.result = Head(query.events).row]
    /\ UNCHANGED <<storeVars, cfgVars, selects, result, queue, tx, db, work,
                   nextId, faults, log>>

\* query.on('error'): defer.reject(err).
OnError ==
    /\ NextEventIs("error")
    /\ query' = reject(Handled(query), "error")
    /\ UNCHANGED <<storeVars, cfgVars, selects, result, queue, tx, db, work,
                   nextId, faults, log>>

\* query.on('end'): reject 'Not found' without a row, else resolve(result).
OnEnd ==
    /\ NextEventIs("end")
    /\ query' = IF query.result = 0 THEN reject(Handled(query), "Not found")
                ELSE resolve(Handled(query), query.result)
    /\ UNCHANGED <<storeVars, cfgVars, selects, result, queue, tx, db, work,
                   nextId, faults, log>>

InitQuery ==
    /\ lines = <<>>
    /\ pc = "query"
    /\ promiseList = {}
    /\ parentOf = <<>>
    /\ pst = <<>>
    /\ idOf = <<>>
    /\ ready = "pending"
    /\ err = NoErr
    /\ outcome = "running"
    /\ closed = FALSE
    /\ queue = <<>>
    /\ tx = "idle"
    /\ db = {}
    /\ work = db
    /\ nextId = FirstId
    /\ faults = 0
    /\ log = <<>>
    /\ calls = NoCalls
    /\ config_id = 0
    /\ selects = NoCalls
    /\ result = <<>>
    /\ \E es \in QueryRuns : query = [NoQuery EXCEPT !.events = es,
                                                      !.state = "pending"]

NextQuery == OnRow \/ OnError \/ OnEnd

SpecQuery == InitQuery /\ [][NextQuery]_vars

\* The rows the query has emitted so far, in order.
RowsSeen ==
    LET ns == SortedSeq({n \in 1..Len(query.seen) : query.seen[n].ev = "row"})
    IN  [k \in 1..Len(ns) |-> query.seen[ns[k]].row]

\* C25: when the query is over its promise is settled: rejected with the
\* database error when the query failed, rejected with 'Not found' when it
\* ended without a row, resolved with the row it returned otherwise (the
\* last one if there were several); it is never resolved without a row.
C25_QuerySingleSettles ==
    /\ query.state = "resolved" => RowsSeen # <<>>
    /\ (pc = "query" /\ query.events = <<>>) =>
          IF \E n \in 1..Len(query.seen) : query.seen[n].ev = "error"
          THEN query.state = "rejected" /\ query.reason = "error"
          ELSE IF RowsSeen = <<>>
          THEN query.state = "rejected" /\ query.reason = "Not found"
          ELSE /\ query.state = "resolved"
               /\ query.value = RowsSeen[Len(RowsSeen)]

\* C25 witness: a query that returned one row has ended and resolved with it.
C25_Witness ==
    /\ pc = "query" /\ query.events = <<>>
    /\ Len(RowsSeen) = 1
    /\ query.state = "resolved" /\ query.value = RowsSeen[1]

(***************************************************************************)
(* select.js: exports.select.  Every call opens a client of its own; the   *)
(* array `result` the calls collect their rows in is a global variable.    *)
(***************************************************************************)
\* The templates and feature types in the database: template 1 has the
\* feature types 3 and 4, template 2 has 5.
SelectRows ==
    { Row("template", 1, 0, 0, TemplateName, 0),
      Row("template", 2, 0, 0, TemplateName, 0),
      Row("featuretype", 3, 1, 0, "", 0),
      Row("featuretype", 4, 1, 0, "", 0),
      Row("featuretype", 5, 2, 0, "", 0) }

\* The ids select is called with: 0 selects all, 3 is no template.
SelectIds == {0, 1, 2, 3}

\* selectTemplate(id): WHERE ID=id is added when id > 0.
selectTemplate(id) ==
    LET all == {r.id : r \in RowsOf(db, "template")}
    IN  IF id > 0 THEN {t \in all : t = id} ELSE all

\* selectFeaturetypes(id): the feature types with TEMPLATE_ID=id.
selectFeaturetypes(id) ==
    {r.id : r \in {x \in RowsOf(db, "featuretype") : x.parent = id}}

\* A template row in `result`; sld_featuretypes is set by subSelect.
ResultRow(t) == [id |-> t, set |-> FALSE, sld_featuretypes |-> {}]

SelectCall(id, ss) ==
    [id |-> id, queue |-> ss, tx |-> "idle", ready |-> "pending", cb |-> <<>>,
     n |-> 0, trace |-> Submits(ss)]

SelectHeadIs(c, op) ==
    /\ pc = "select"
    /\ selects[c].queue # <<>>
    /\ Head(selects[c].queue).op = op

\* A statement fails: always in an aborted block, else while fewer than
\* MaxFaults have.
SelectFault(c, f) ==
    /\ selects[c].tx = "aborted" => f
    /\ (f /\ selects[c].tx # "aborted") => faults < MaxFaults
    /\ faults' = IF f /\ selects[c].tx # "aborted" THEN faults + 1 ELSE faults

\* The call record after its head statement has completed and ss has been
\* submitted.
SelectReply(call, f, ss) ==
    [call EXCEPT !.queue = Tail(@) \o ss,
                 !.tx = IF f /\ @ = "open" THEN "aborted" ELSE @,
                 !.trace = @ \o Done(f, Head(call.queue)) \o Submits(ss)]

\* exports.select(id, cb): result = [], connect() submits BEGIN and the
\* resolved `connected` runs selectTemplate(id).
select(id) ==
    /\ pc = "select"
    /\ Len(selects) < MaxSelects
    /\ LET c == Len(selects) + 1
           ss == <<Ctl("BEGIN", c), Stmt("SELECT_TEMPLATE", c, id, 0, "", "")>>
       IN  selects' = Append(selects, SelectCall(id, ss))
    /\ result' = <<>>
    /\ UNCHANGED <<storeVars, cfgVars, query, queue, tx, db, work, nextId,
                   faults, log>>

\* BEGIN completes on the client of call c.
SelectBeginDone(c) ==
    /\ SelectHeadIs(c, "BEGIN")
    /\ selects' = [selects EXCEPT ![c] =
                      [SelectReply(@, FALSE, <<>>) EXCEPT !.tx = "open"]]
    /\ UNCHANGED <<storeVars, cfgVars, query, result, queue, tx, db, work,
                   nextId, faults, log>>

FeatureTypeQueries(c, ts) ==
    [k \in 1..Len(ts) |-> Stmt("SELECT_FT", c, ts[k], k, "", "")]

\* The template query completes.  Fulfilled: every row is pushed to the
\* global result and subSelect(ind, row.id) is called with ind counting the
\* rows of this call from 0 (here from 1); `ready` is the promise of the
\* last subSelect, or null without rows, and then finish() follows.
\* Rejected: ready.catch calls inserter.abort(), inserter is not defined.
TemplateSelected(c, f) ==
    /\ SelectHeadIs(c, "SELECT_TEMPLATE")
    /\ SelectFault(c, f)
    /\ LET s == Head(selects[c].queue)
           ts == IF f THEN <<>> ELSE SortedSeq(selectTemplate(s.parent))
           ss == IF f THEN <<>>
                 ELSE IF ts = <<>> THEN <<Ctl("COMMIT", c)>>
                 ELSE FeatureTypeQueries(c, ts)
       IN  /\ result' = result \o [k \in 1..Len(ts) |-> ResultRow(ts[k])]
           /\ selects' = [selects EXCEPT ![c] =
                  [SelectReply(@, f, ss) EXCEPT
                      !.n = Len(ts),
                      !.ready = IF f THEN "rejected"
                                ELSE IF ts = <<>> THEN "resolved" ELSE @]]
    /\ UNCHANGED <<storeVars, cfgVars, query, queue, tx, db, work, nextId, log>>

\* A feature type query completes: result[ind].sld_featuretypes is set,
\* which throws when the global result has no element ind.  The promise of
\* the last query of the call settles `ready`.
FeatureTypesSelected(c, f) ==
    /\ SelectHeadIs(c, "SELECT_FT")
    /\ SelectFault(c, f)
    /\ LET s == Head(selects[c].queue)
           ind == s.ref
           ok == ~f /\ ind <= Len(result)
           isLast == ind = selects[c].n
           ss == IF isLast /\ ok THEN <<Ctl("COMMIT", c)>> ELSE <<>>
       IN  /\ result' = IF ok
                        THEN [result EXCEPT
                                 ![ind].set = TRUE,
                                 ![ind].sld_featuretypes =
                                     selectFeaturetypes(s.parent)]
                        ELSE result
           /\ selects' = [selects EXCEPT ![c] =
                  [SelectReply(@, f, ss) EXCEPT
                      !.ready = IF ~isLast THEN @
                                ELSE IF ok THEN "resolved" ELSE "rejected"]]
    /\ UNCHANGED <<storeVars, cfgVars, query, queue, tx, db, work, nextId, log>>

\* finish() completes: cb(false, result) with the global result.
SelectCommitDone(c) ==
    /\ SelectHeadIs(c, "COMMIT")
    /\ selects' = [selects EXCEPT ![c] =
                      [SelectReply(@, FALSE, <<>>) EXCEPT
                          !.tx = "idle",
                          !.cb = Append(@, Callback(FALSE, 0, result)),
                          !.trace = @ \o <<CallbackEvent>>]]
    /\ UNCHANGED <<storeVars, cfgVars, query, result, queue, tx, db, work,
                   nextId, faults, log>>

InitSelect ==
    /\ lines = <<>>
    /\ pc = "select"
    /\ promiseList = {}
    /\ parentOf = <<>>
    /\ pst = <<>>
    /\ idOf = <<>>
    /\ ready = "pending"
    /\ err = NoErr
    /\ outcome = "running"
    /\ closed = FALSE
    /\ queue = <<>>
    /\ tx = "idle"
    /\ db = SelectRows
    /\ work = db
    /\ nextId = FirstId
    /\ faults = 0
    /\ log = <<>>
    /\ calls = NoCalls
    /\ config_id = 0
    /\ selects = NoCalls
    /\ result = <<>>
    /\ query = NoQuery

NextSelect ==
    \/ \E id \in SelectIds : select(id)
    \/ \E c \in 1..Len(selects) : SelectBeginDone(c)
    \/ \E c \in 1..Len(selects), f \in BOOLEAN : TemplateSelected(c, f)
    \/ \E c \in 1..Len(selects), f \in BOOLEAN : FeatureTypesSelected(c, f)
    \/ \E c \in 1..Len(selects) : SelectCommitDone(c)

SpecSelect == InitSelect /\ [][NextSelect]_vars

\* The rows select(id) is to hand over: the templates selected by id, each
\* with the feature types of that template.
Expected(id) ==
    LET ts == SortedSeq(selectTemplate(id))
    IN  [k \in 1..Len(ts) |->
            [id |-> ts[k], set |-> TRUE,
             sld_featuretypes |-> selectFeaturetypes(ts[k])]]

\* C26: the rows a select call hands to its callback are the template with
\* the id of the call (all templates when the id is not positive), each
\* with the feature types of that template and no others.
C26_SelectById ==
    \A c \in 1..Len(selects) :
       selects[c].cb # <<>> =>
          selects[c].cb[1].rows = Expected(selects[c].id)

(***************************************************************************)
(* Further properties of update_config.js                                  *)
(***************************************************************************)
\* C31: the success callback of an update_config call gets the id of the
\* config of that call.
C31_CallbackConfigId ==
    \A c \in Updates :
       CallSucceeded(c) => calls[c].cb[1].id = calls[c].cfg

\* The configs whose DELETE an update_config call has run successfully.
Replaced ==
    {calls[c].cfg : c \in {d \in Updates : CallEvents(d, "ok", "DELETE") # {}}}

\* C32: every row in the database, committed or not, is a row that was
\* there before the calls or a value row that an update_config call
\* inserted under its own config, and the only rows that have gone are
\* value rows of a config whose values a call has deleted.
C32_Frame ==
    /\ \A r \in work \cup db :
          \/ r \in InitialRows
          \/ /\ r.tbl = "value"
             /\ r.origin \in Updates
             /\ r.parent = calls[r.origin].cfg
    /\ \A r \in InitialRows :
          (r \notin db \/ r \notin work)
             => (r.tbl = "value" /\ r.parent \in Replaced)

\* C32 witness: a call has replaced the values of config 2, another call on
\* config 2 has failed, and the value of config 1 is still there.
C32_Witness ==
    /\ \E c, d \in Updates :
          /\ calls[c].cfg = 2 /\ calls[d].cfg = 2
          /\ CallSucceeded(c) /\ calls[c].values # <<>>
          /\ CallErred(d)
    /\ Stored(db, 2) # <<>>
    /\ Stored(db, 1) = Stored(InitialRows, 1)

(***************************************************************************)
(* Further properties of select.js                                         *)
(***************************************************************************)
SelectEvents(c, ev, op) ==
    {n \in 1..Len(selects[c].trace) :
        selects[c].trace[n].ev = ev /\ selects[c].trace[n].op = op}

\* C35: when a select call has called its callback every row it handed
\* over has its sld_featuretypes set, and its COMMIT was submitted after
\* every feature type query of the call had completed successfully.
C35_FeatureTypesBeforeCallback ==
    \A c \in 1..Len(selects) :
       selects[c].cb # <<>> =>
          /\ \A n \in 1..Len(selects[c].cb[1].rows) :
                selects[c].cb[1].rows[n].set
          /\ \A n \in SelectEvents(c, "submit", "COMMIT") :
                Cardinality({m \in SelectEvents(c, "ok", "SELECT_FT") : m < n})
                   = Cardinality(SelectEvents(c, "submit", "SELECT_FT"))

\* C36: a select call none of whose statements failed and none of whose
\* statements is left to run has called its callback, and every row it
\* handed over is a template selected by the id of the call, each once.
C36_SelectIsolation ==
    \A c \in 1..Len(selects) :
       (/\ selects[c].queue = <<>>
        /\ \A n \in 1..Len(selects[c].trace) : selects[c].trace[n].ev # "fail")
          => /\ selects[c].cb # <<>>
             /\ \A n \in 1..Len(selects[c].cb[1].rows) :
                   selects[c].cb[1].rows[n].id \in selectTemplate(selects[c].id)
             /\ Len(selects[c].cb[1].rows)
                   = Cardinality(selectTemplate(selects[c].id))

====
